---- MODULE Spec2Model ----
(***************************************************************************)
(* LapceContainer (src/src/container.rs): the root widget that composes    *)
(* the palette overlay and the editor split, routes events between them,   *)
(* lays them out and paints them.                                          *)
(*                                                                         *)
(* Coordinates are f64 in the source.  They are modelled as fixed-point    *)
(* integers counting quarters of a logical unit (Fx(600) is 600.0), so     *)
(* that the divisions by 2.0 and by 4.0 of layout are exact for every      *)
(* available size that is a whole number of logical units.                 *)
(***************************************************************************)
EXTENDS Integers, Sequences, FiniteSets, TLC

\* ------------------------------------------------------------------ bounds
\* largest number of dirty rectangles in the region of one paint call
MaxDirty == 2

\* ------------------------------------------------------------ fixed point
Fx(n) == 4 * n
Half(v) == v \div 2
Quarter(v) == v \div 4
Min(a, b) == IF a <= b THEN a ELSE b
Max(a, b) == IF a >= b THEN a ELSE b

\* --------------------------------------------------- kurbo Point/Size/Rect
Point(x, y) == [x |-> x, y |-> y]
Size(w, h) == [width |-> w, height |-> h]
SizeZERO == Size(0, 0)
RectZERO == [x0 |-> 0, y0 |-> 0, x1 |-> 0, y1 |-> 0]

rect_abs(r) ==
    [x0 |-> Min(r.x0, r.x1), y0 |-> Min(r.y0, r.y1),
     x1 |-> Max(r.x0, r.x1), y1 |-> Max(r.y0, r.y1)]
from_points(p0, p1) == rect_abs([x0 |-> p0.x, y0 |-> p0.y, x1 |-> p1.x, y1 |-> p1.y])
from_origin_size(o, s) == from_points(o, Point(o.x + s.width, o.y + s.height))
origin(r) == Point(r.x0, r.y0)
size(r) == Size(r.x1 - r.x0, r.y1 - r.y0)
with_origin(r, o) == from_origin_size(o, size(r))
with_size(r, s) == from_origin_size(origin(r), s)
\* Rect::contains: half-open on both axes
\* the right and bottom edges counted as part of the rectangle
contains_closed(r, p) == p.x >= r.x0 /\ p.x <= r.x1 /\ p.y >= r.y0 /\ p.y <= r.y1

contains(r, p) == p.x >= r.x0 /\ p.x < r.x1 /\ p.y >= r.y0 /\ p.y < r.y1

\* ------------------------------------------------------------------ inputs
Widths == {Fx(500), Fx(1000), Fx(1001)}
Heights == {Fx(300), Fx(800)}
\* sizes the palette child may report from its own layout; the last one
\* ignores the constraints it was given
PaletteSizes == {Size(Fx(600), Fx(400)), Size(Fx(300), Fx(200)),
                 Size(Fx(700), Fx(500)), Size(0, Fx(400))}
EditorSizes == {Size(Fx(1000), Fx(800)), Size(Fx(100), Fx(100))}
PosX == {Fx(200), Fx(500), Fx(800)}
PosY == {Fx(100), Fx(300), Fx(500)}
Positions == {Point(x, y) : x \in PosX, y \in PosY}

PointerKinds == {"MouseDown", "MouseUp", "MouseMove", "Wheel"}
OtherKinds == {"KeyUp", "Timer", "WindowSize"}
Selectors == {"LAPCE_UI_COMMAND", "LAPCE_COMMAND", "OTHER_SELECTOR"}
UICommands ==
    {[tag |-> "BufferUpdate", buffer_id |-> b, inval_lines |-> l] :
        b \in {1, 2}, l \in {<<>>, <<3>>}}
    \cup {[tag |-> "RequestLayout"]}
LapceCommands == {[tag |-> "Palette"], [tag |-> "PaletteCancel"]}
OtherCommands == {[tag |-> "Opaque"]}
Payloads(sel) ==
    IF sel = "LAPCE_UI_COMMAND" THEN UICommands
    ELSE IF sel = "LAPCE_COMMAND" THEN LapceCommands
    ELSE OtherCommands
Events ==
    {[kind |-> "Internal"]}
    \cup {[kind |-> "KeyDown", key |-> k] : k \in {"a", "Escape"}}
    \cup {[kind |-> "Command", selector |-> s, payload |-> p] :
            s \in Selectors, p \in UICommands \cup LapceCommands \cup OtherCommands}
    \cup {[kind |-> k, pos |-> p] : k \in PointerKinds, p \in Positions}
    \cup {[kind |-> k] : k \in OtherKinds}
WellFormed(ev) == ev.kind = "Command" => ev.payload \in Payloads(ev.selector)
LifeCycles == {"WidgetAdded", "Size", "FocusChanged"}
DirtyRects == {from_origin_size(Point(0, 0), Size(Fx(100), Fx(100))),
               from_origin_size(Point(Fx(200), Fx(100)), Size(Fx(600), Fx(400)))}
Regions == UNION {[1..n -> DirtyRects] : n \in 0..MaxDirty}
BoxConstraints == {[min |-> SizeZERO, max |-> Size(w, h)] : w \in Widths, h \in Heights}

\* ------------------------------------------------------------------- state
VARIABLES
    palette_max_size,   \* LapceContainer.palette_max_size
    palette_rect,       \* LapceContainer.palette_rect
    palette_layout,     \* layout rect of the palette WidgetPod
    editor_split_rect,  \* layout rect of the editor_split WidgetPod
    hidden,             \* LAPCE_STATE.palette.hidden
    last,               \* the entry point called last, with its inputs
    calls,              \* the calls that entry point made, in order
    last_layout         \* inputs and results of the most recent layout pass

vars == <<palette_max_size, palette_rect, palette_layout, editor_split_rect,
          hidden, last, calls, last_layout>>

\* one call made by the container: the callee, its argument, and the
\* sections of LAPCE_STATE whose lock the container holds while calling
Call(callee, arg, locks) == [callee |-> callee, arg |-> arg, locks |-> locks]
NoArg == [none |-> TRUE]
\* callees outside the container that can reach LAPCE_STATE
External == {"palette.event", "editor_split.event", "LAPCE_STATE.key_down",
             "editor_split.buffer_update", "palette.lifecycle",
             "editor_split.lifecycle", "palette.layout", "editor_split.layout",
             "palette.paint", "editor_split.paint"}
CallsOut(cs) == \E i \in 1..Len(cs) : cs[i].callee \in External
Count(cs, callee) == Cardinality({i \in 1..Len(cs) : cs[i].callee = callee})

\* ---------------------------------------------------- LapceContainer::new
new_calls ==
    << Call("LAPCE_STATE.palette.set_widget_id", NoArg, {"palette"}),
       Call("LAPCE_STATE.editor_split.set_widget_id", NoArg, {"editor_split"}),
       Call("LAPCE_STATE.editor_split.set_active", NoArg, {"editor_split"}) >>

Init ==
    /\ palette_max_size = Size(Fx(600), Fx(400))
    /\ palette_rect = with_size(with_origin(RectZERO, Point(Fx(200), Fx(100))),
                                Size(Fx(600), Fx(400)))
    /\ palette_layout = RectZERO
    /\ editor_split_rect = RectZERO
    /\ hidden \in BOOLEAN
    /\ last = [op |-> "new"]
    /\ calls = new_calls
    /\ last_layout = [valid |-> FALSE]

\* -------------------------------------------------- LapceContainer::event
\* first match: Internal, KeyDown and Command
\* the two children served in the opposite order
internal_calls_swapped(ev) ==
    << Call("editor_split.event", ev, {}), Call("palette.event", ev, {}) >>

internal_calls(ev) ==
    << Call("palette.event", ev, {}), Call("editor_split.event", ev, {}) >>

\* the key also forwarded to the palette child
key_down_calls_forwarded(ev) ==
    << Call("LAPCE_STATE.key_down", ev, {}), Call("palette.event", ev, {}) >>

key_down_calls(ev) == << Call("LAPCE_STATE.key_down", ev, {}) >>

\* buffer_update called for every UI command tag
ui_command_calls_every_tag(ev) ==
    << Call("editor_split.buffer_update",
            [buffer_id |-> IF ev.payload.tag = "BufferUpdate"
                           THEN ev.payload.buffer_id ELSE 1,
             inval_lines |-> IF ev.payload.tag = "BufferUpdate"
                             THEN ev.payload.inval_lines ELSE << >>],
            {"editor_split"}) >>

ui_command_calls(ev) ==
    IF ev.payload.tag = "BufferUpdate"
    THEN << Call("editor_split.buffer_update",
                 [buffer_id |-> ev.payload.buffer_id,
                  inval_lines |-> ev.payload.inval_lines],
                 {"editor_split"}) >>
    ELSE << >>

\* the command forwarded only while the palette is visible
lapce_command_calls_gated(ev) ==
    IF hidden THEN << >> ELSE << Call("palette.event", ev, {}) >>

lapce_command_calls(ev) == << Call("palette.event", ev, {}) >>

command_calls(ev) ==
    IF ev.selector = "LAPCE_UI_COMMAND" THEN ui_command_calls(ev)
    ELSE IF ev.selector = "LAPCE_COMMAND" THEN lapce_command_calls(ev)
    ELSE << >>

\* the `return` of the Command arm
consumed(ev) == ev.kind = "Command"

\* second match: the pointer events
\* the hidden flag not consulted
to_palette_ignores_hidden(hid, rect, pos) == contains(rect, pos)

\* the hit test not made
to_palette_ignores_rect(hid, rect, pos) == ~hid

\* visibility taken from what the previous pointer event saw
to_palette_cached_flag(hid, rect, pos) ==
    /\ IF last.op = "event" /\ last.event.kind \in PointerKinds
       THEN ~last.hidden ELSE ~hid
    /\ contains(rect, pos)

to_palette(hid, rect, pos) == ~hid /\ contains(rect, pos)

\* an event over the palette also handed to the editor split
pointer_calls_both(ev, hid, rect) ==
    << Call("LAPCE_STATE.palette.hidden", NoArg, {"palette"}) >>
    \o (IF ~hid /\ contains(rect, ev.pos)
        THEN << Call("palette.event", ev, {}), Call("editor_split.event", ev, {}) >>
        ELSE << Call("editor_split.event", ev, {}) >>)

\* the palette guard kept alive while the event is forwarded
pointer_calls_guard_kept(ev, hid, rect) ==
    << Call("LAPCE_STATE.palette.hidden", NoArg, {"palette"}) >>
    \o (IF ~hid /\ contains(rect, ev.pos)
        THEN << Call("palette.event", ev, {"palette"}) >>
        ELSE << Call("editor_split.event", ev, {"palette"}) >>)

pointer_calls(ev, hid, rect) ==
    << Call("LAPCE_STATE.palette.hidden", NoArg, {"palette"}) >>
    \o (IF to_palette(hid, rect, ev.pos)
        THEN << Call("palette.event", ev, {}) >>
        ELSE << Call("editor_split.event", ev, {}) >>)

first_match(ev) ==
    IF ev.kind = "Internal" THEN internal_calls(ev)
    ELSE IF ev.kind = "KeyDown" THEN key_down_calls(ev)
    ELSE IF ev.kind = "Command" THEN command_calls(ev)
    ELSE << >>

\* a default arm that hands every other event to the editor split
second_match_default_arm(ev, hid, rect) ==
    IF ev.kind \in PointerKinds THEN pointer_calls(ev, hid, rect)
    ELSE << Call("editor_split.event", ev, {}) >>

second_match(ev, hid, rect) ==
    IF ev.kind \in PointerKinds THEN pointer_calls(ev, hid, rect) ELSE << >>

event_calls(ev, hid, rect) ==
    << Call("ctx.request_focus", NoArg, {}) >>
    \o first_match(ev)
    \o (IF consumed(ev) THEN << >> ELSE second_match(ev, hid, rect))

\* what a callee that can reach LAPCE_STATE may do to the palette's flag
shared_state_after(cs) ==
    IF CallsOut(cs) THEN hidden' \in BOOLEAN ELSE hidden' = hidden

\* the pointer event handled immediately before ev at the same position,
\* with the flag it read and where it went
previous_pointer(ev) ==
    IF /\ ev.kind \in PointerKinds
       /\ last.op = "event" /\ last.event.kind \in PointerKinds
       /\ last.event.pos = ev.pos
    THEN [valid |-> TRUE, hidden |-> last.hidden,
          to_palette |-> Count(calls, "palette.event") = 1]
    ELSE [valid |-> FALSE]

event ==
    \E ev \in Events :
        /\ WellFormed(ev)
        /\ calls' = event_calls(ev, hidden, palette_rect)
        /\ last' = [op |-> "event", event |-> ev, hidden |-> hidden,
                    rect |-> palette_rect, prev |-> previous_pointer(ev)]
        /\ shared_state_after(calls')
        /\ UNCHANGED <<palette_max_size, palette_rect, palette_layout,
                       editor_split_rect, last_layout>>

\* ---------------------------------------------- LapceContainer::lifecycle
\* the notification kept from the editor split
lifecycle_calls_palette_only(lc) ==
    << Call("palette.lifecycle", [lifecycle |-> lc], {}) >>

lifecycle_calls(lc) ==
    << Call("palette.lifecycle", [lifecycle |-> lc], {}),
       Call("editor_split.lifecycle", [lifecycle |-> lc], {}) >>

lifecycle ==
    \E lc \in LifeCycles :
        /\ calls' = lifecycle_calls(lc)
        /\ last' = [op |-> "lifecycle", lifecycle |-> lc]
        /\ shared_state_after(calls')
        /\ UNCHANGED <<palette_max_size, palette_rect, palette_layout,
                       editor_split_rect, last_layout>>

\* ------------------------------------------------- LapceContainer::update
\* update putting the cached rectangle back to the provisional one
update_resets_rect ==
    /\ calls' = << >>
    /\ last' = [op |-> "update"]
    /\ palette_rect' = with_size(with_origin(RectZERO, Point(Fx(200), Fx(100))),
                                 palette_max_size)
    /\ UNCHANGED <<palette_max_size, palette_layout,
                   editor_split_rect, hidden, last_layout>>

update ==
    /\ calls' = << >>
    /\ last' = [op |-> "update"]
    /\ UNCHANGED <<palette_max_size, palette_rect, palette_layout,
                   editor_split_rect, hidden, last_layout>>

\* ------------------------------------------------- LapceContainer::layout
\* the vertical origin not clamped at zero
palette_origin_unclamped(sz, max_size) ==
    Point(Half(sz.width - max_size.width), Quarter(sz.height - max_size.height))

\* the palette centred on both axes
palette_origin_centred(sz, max_size) ==
    Point(Half(sz.width - max_size.width),
          Max(Half(sz.height - max_size.height), 0))

\* the horizontal origin clamped at zero like the vertical one
palette_origin_both_clamped(sz, max_size) ==
    Point(Max(Half(sz.width - max_size.width), 0),
          Max(Quarter(sz.height - max_size.height), 0))

palette_origin(sz, max_size) ==
    Point(Half(sz.width - max_size.width),
          Max(Quarter(sz.height - max_size.height), 0))

\* the cached rectangle moved by the computed origin instead of placed at it
layout_palette_rect_translated(sz, max_size, palette_size) ==
    with_size(with_origin(RectZERO,
                          Point(palette_rect.x0 + palette_origin(sz, max_size).x,
                                palette_rect.y0 + palette_origin(sz, max_size).y)),
              palette_size)

\* the rectangle recomputed only when the available size changed
layout_palette_rect_on_resize(sz, max_size, palette_size) ==
    IF last_layout.valid /\ last_layout.size = sz
    THEN palette_rect
    ELSE with_size(with_origin(RectZERO, palette_origin(sz, max_size)), palette_size)

layout_palette_rect(sz, max_size, palette_size) ==
    with_size(with_origin(RectZERO, palette_origin(sz, max_size)), palette_size)

\* the editor split moved below the palette to make room for it
layout_editor_rect_below_palette(sz) ==
    with_size(with_origin(RectZERO, Point(0, palette_rect.y1)), sz)

layout_editor_rect(sz) == with_size(RectZERO, sz)

layout_calls(bc, max_size, prect, erect) ==
    << Call("palette.layout", [min |-> SizeZERO, max |-> max_size], {}),
       Call("palette.set_layout_rect", prect, {}),
       Call("editor_split.layout", bc, {}),
       Call("editor_split.set_layout_rect", erect, {}) >>

layout ==
    \E bc \in BoxConstraints, palette_size \in PaletteSizes, editor_size \in EditorSizes :
        LET sz == bc.max
            prect == layout_palette_rect(sz, palette_max_size, palette_size)
            erect == layout_editor_rect(sz)
        IN  /\ palette_rect' = prect
            /\ palette_layout' = prect
            /\ editor_split_rect' = erect
            /\ calls' = layout_calls(bc, palette_max_size, prect, erect)
            /\ last' = [op |-> "layout", bc |-> bc, palette_size |-> palette_size,
                        editor_size |-> editor_size, ret |-> sz,
                        prev |-> last_layout]
            /\ last_layout' = [valid |-> TRUE, size |-> sz,
                               palette_size |-> palette_size,
                               palette_rect |-> prect, editor_split_rect |-> erect]
            /\ shared_state_after(calls')
            /\ UNCHANGED palette_max_size

\* -------------------------------------------------- LapceContainer::paint
fill_calls(rect, bg) ==
    << Call("LAPCE_STATE.theme.get", NoArg, {"theme"}) >>
    \o (IF bg THEN << Call("ctx.fill", rect, {"theme"}) >> ELSE << >>)

RECURSIVE background_calls(_, _)
background_calls(rects, bg) ==
    IF rects = << >> THEN << >>
    ELSE fill_calls(Head(rects), bg) \o background_calls(Tail(rects), bg)

\* the palette painted under the editor split
children_paint_calls_swapped ==
    << Call("palette.paint", NoArg, {}), Call("editor_split.paint", NoArg, {}) >>

children_paint_calls ==
    << Call("editor_split.paint", NoArg, {}), Call("palette.paint", NoArg, {}) >>

paint_calls(rects, bg) == background_calls(rects, bg) \o children_paint_calls

paint ==
    \* background: whether the theme has a "background" colour
    \E rects \in Regions, background \in BOOLEAN :
        /\ calls' = paint_calls(rects, background)
        /\ last' = [op |-> "paint", rects |-> rects, background |-> background]
        /\ shared_state_after(calls')
        /\ UNCHANGED <<palette_max_size, palette_rect, palette_layout,
                       editor_split_rect, last_layout>>

\* ------------------------------------------------------------ specification
Next == event \/ lifecycle \/ update \/ layout \/ paint

Spec == Init /\ [][Next]_vars

\* ================================================================== claims
Callees(cs) == [i \in 1..Len(cs) |-> cs[i].callee]
IsDelivery(callee) == callee \in {"palette.event", "editor_split.event"}
\* the children that received the event, in order
Deliveries(cs) == SelectSeq(Callees(cs), IsDelivery)
IsFill(c) == c.callee = "ctx.fill"
Fills(cs) == SelectSeq(cs, IsFill)

HandledPointer == last.op = "event" /\ last.event.kind \in PointerKinds
StrictlyInside(r, p) == r.x0 < p.x /\ p.x < r.x1 /\ r.y0 < p.y /\ p.y < r.y1
Outside(r, p) == p.x < r.x0 \/ p.x > r.x1 \/ p.y < r.y0 \/ p.y > r.y1

\* C1: a pointer event handled while the palette is visible, at a position
\* strictly inside palette_rect, is delivered to the palette child exactly
\* once and not to the editor split.
C1_InsideVisibleToPalette ==
    (HandledPointer /\ ~last.hidden /\ StrictlyInside(last.rect, last.event.pos))
        => Deliveries(calls) = <<"palette.event">>

C1_Witness ==
    /\ HandledPointer /\ ~last.hidden
    /\ StrictlyInside(last.rect, last.event.pos)
    /\ last_layout.valid
    /\ Count(calls, "palette.event") = 1

\* C2: a pointer event handled while the palette is hidden is delivered to
\* the editor split and never to the palette, wherever the pointer is.
C2_HiddenToEditorSplit ==
    (HandledPointer /\ last.hidden)
        => Deliveries(calls) = <<"editor_split.event">>

C2_Witness ==
    /\ HandledPointer /\ last.hidden
    /\ StrictlyInside(last.rect, last.event.pos)
    /\ Count(calls, "editor_split.event") = 1

\* C3: a pointer event at a position outside palette_rect is delivered to
\* the editor split only, whether the palette is visible or hidden.
C3_OutsideToEditorSplit ==
    (HandledPointer /\ Outside(last.rect, last.event.pos))
        => Deliveries(calls) = <<"editor_split.event">>

C3_Witness ==
    /\ HandledPointer /\ ~last.hidden
    /\ Outside(last.rect, last.event.pos)
    /\ Count(calls, "editor_split.event") = 1

\* C4: a KeyDown event is passed to LAPCE_STATE.key_down and delivered to
\* neither child, in every state.
C4_KeyDownToGlobalHandler ==
    (last.op = "event" /\ last.event.kind = "KeyDown")
        => /\ Count(calls, "LAPCE_STATE.key_down") = 1
           /\ \A i \in 1..Len(calls) :
                 calls[i].callee = "LAPCE_STATE.key_down" => calls[i].arg = last.event
           /\ Deliveries(calls) = << >>

C4_Witness ==
    /\ last.op = "event" /\ last.event.kind = "KeyDown"
    /\ ~last.hidden
    /\ Count(calls, "LAPCE_STATE.key_down") = 1

\* C5: after layout with available size (W, H) the origin of palette_rect
\* is ((W - max width) / 2, max(0, (H - max height) / 4)) and its size is the
\* size the palette child reported; 1000x800 with a 600x400 palette gives
\* the origin (200, 100).
C5_PaletteRectPlacement ==
    last.op = "layout" =>
        LET W == last.bc.max.width
            H == last.bc.max.height
        IN  /\ 2 * palette_rect.x0 = W - palette_max_size.width
            /\ IF H >= palette_max_size.height
               THEN 4 * palette_rect.y0 = H - palette_max_size.height
               ELSE palette_rect.y0 = 0
            /\ palette_rect.x1 - palette_rect.x0 = last.palette_size.width
            /\ palette_rect.y1 - palette_rect.y0 = last.palette_size.height
            /\ (W = Fx(1000) /\ H = Fx(800))
                  => (palette_rect.x0 = Fx(200) /\ palette_rect.y0 = Fx(100))

C5_Witness ==
    /\ last.op = "layout"
    /\ last.bc.max = Size(Fx(1000), Fx(800))
    /\ last.palette_size = Size(Fx(600), Fx(400))
    /\ palette_rect = [x0 |-> Fx(200), y0 |-> Fx(100), x1 |-> Fx(800), y1 |-> Fx(500)]

\* C6: after every layout pass the vertical origin of palette_rect is not
\* negative, and when the palette child reported a size within its
\* constraints the width and height of palette_rect do not exceed
\* palette_max_size.
WithinConstraints(s) ==
    /\ 0 <= s.width /\ s.width <= palette_max_size.width
    /\ 0 <= s.height /\ s.height <= palette_max_size.height

C6_PaletteRectBounds ==
    last_layout.valid =>
        /\ palette_rect.y0 >= 0
        /\ WithinConstraints(last_layout.palette_size)
              => /\ palette_rect.x1 - palette_rect.x0 <= palette_max_size.width
                 /\ palette_rect.y1 - palette_rect.y0 <= palette_max_size.height

C6_Witness ==
    /\ last.op = "layout"
    /\ last.bc.max = Size(Fx(500), Fx(300))
    /\ WithinConstraints(last.palette_size)
    /\ palette_rect.y0 = 0

\* C7: a layout pass with the same available size and the same reported
\* palette size as the previous layout pass, whatever was called in
\* between, leaves palette_rect and the editor split's rectangle as the
\* previous pass set them.
SameAsPreviousLayout ==
    /\ last.op = "layout"
    /\ last.prev.valid
    /\ last.prev.size = last.bc.max
    /\ last.prev.palette_size = last.palette_size

C7_LayoutIdempotent ==
    SameAsPreviousLayout =>
        /\ palette_rect = last.prev.palette_rect
        /\ editor_split_rect = last.prev.editor_split_rect

C7_Witness ==
    /\ SameAsPreviousLayout
    /\ last.bc.max = Size(Fx(1001), Fx(300))
    /\ palette_rect = last.prev.palette_rect

\* C8: every paint call fills the dirty rectangles with the background
\* first, then paints the editor split, then the palette last.
C8_PaintOrder ==
    last.op = "paint" =>
        LET n == Len(calls)
        IN  /\ n >= 2
            /\ calls[n].callee = "palette.paint"
            /\ calls[n - 1].callee = "editor_split.paint"
            /\ \A i \in 1..(n - 2) :
                  calls[i].callee \in {"LAPCE_STATE.theme.get", "ctx.fill"}
            /\ last.background
                  => [i \in 1..Len(Fills(calls)) |-> Fills(calls)[i].arg] = last.rects

C8_Witness ==
    /\ last.op = "paint"
    /\ last.background
    /\ Len(last.rects) = 2
    /\ Len(Fills(calls)) = 2
    /\ calls[Len(calls)].callee = "palette.paint"

\* C9: an Internal event is delivered to both children, the palette first
\* and the editor split second, each exactly once, whatever the hidden
\* flag and palette_rect are.
C9_InternalToBoth ==
    (last.op = "event" /\ last.event.kind = "Internal")
        => Deliveries(calls) = <<"palette.event", "editor_split.event">>

C9_Witness ==
    /\ last.op = "event" /\ last.event.kind = "Internal"
    /\ last.hidden
    /\ Len(Deliveries(calls)) = 2

\* C10: a Command event with the LAPCE_COMMAND selector is delivered to the
\* palette child exactly once and never to the editor split, whatever its
\* tag and the hidden flag, and the pointer-routing step is not reached.
HandledLapceCommand ==
    /\ last.op = "event" /\ last.event.kind = "Command"
    /\ last.event.selector = "LAPCE_COMMAND"

C10_LapceCommandToPalette ==
    HandledLapceCommand =>
        /\ Deliveries(calls) = <<"palette.event">>
        /\ Count(calls, "LAPCE_STATE.palette.hidden") = 0

C10_Witness ==
    /\ HandledLapceCommand
    /\ last.hidden
    /\ last.event.payload.tag = "PaletteCancel"
    /\ Count(calls, "palette.event") = 1

\* C11: a Command event with the LAPCE_UI_COMMAND selector: BufferUpdate
\* causes exactly one call of the editor-split state's buffer_update, with
\* the command's buffer id and invalidated lines; every other tag causes no
\* call and changes no state; neither child receives the event and the
\* pointer-routing step is not reached.
HandledUICommand ==
    /\ last.op = "event" /\ last.event.kind = "Command"
    /\ last.event.selector = "LAPCE_UI_COMMAND"

OnlyFocusRequested == calls = << Call("ctx.request_focus", NoArg, {}) >>

C11_UICommand ==
    HandledUICommand =>
        /\ Deliveries(calls) = << >>
        /\ Count(calls, "LAPCE_STATE.palette.hidden") = 0
        /\ Count(calls, "LAPCE_STATE.key_down") = 0
        /\ IF last.event.payload.tag = "BufferUpdate"
           THEN /\ Count(calls, "editor_split.buffer_update") = 1
                /\ \A i \in 1..Len(calls) :
                      calls[i].callee = "editor_split.buffer_update"
                          => calls[i].arg =
                                [buffer_id |-> last.event.payload.buffer_id,
                                 inval_lines |-> last.event.payload.inval_lines]
           ELSE /\ OnlyFocusRequested
                /\ hidden = last.hidden
                /\ palette_rect = last.rect

C11_Witness ==
    /\ HandledUICommand
    /\ last.event.payload = [tag |-> "BufferUpdate", buffer_id |-> 2,
                             inval_lines |-> <<3>>]
    /\ Count(calls, "editor_split.buffer_update") = 1

\* C12: layout returns bc.max() and gives the editor split the rectangle
\* with origin (0, 0) and size bc.max(); that rectangle depends on nothing
\* the palette reported, and palette_rect depends on nothing the editor
\* split's layout returned.
RectOf(x, y, w, h) == [x0 |-> x, y0 |-> y, x1 |-> x + w, y1 |-> y + h]
\* the palette rectangle as a function of the available size and the
\* palette's reported size alone
PaletteRectFor(avail, reported) ==
    RectOf((avail.width - Fx(600)) \div 2,
           IF avail.height >= Fx(400) THEN (avail.height - Fx(400)) \div 4 ELSE 0,
           reported.width, reported.height)

C12_LayoutFillsAvailable ==
    last.op = "layout" =>
        /\ last.ret = last.bc.max
        /\ editor_split_rect = RectOf(0, 0, last.bc.max.width, last.bc.max.height)
        /\ palette_rect = PaletteRectFor(last.bc.max, last.palette_size)

C12_Witness ==
    /\ last.op = "layout"
    /\ last.bc.max = Size(Fx(1001), Fx(800))
    /\ last.palette_size = Size(Fx(300), Fx(200))
    /\ last.editor_size = Size(Fx(100), Fx(100))
    /\ last.ret = Size(Fx(1001), Fx(800))
    /\ editor_split_rect = RectOf(0, 0, Fx(1001), Fx(800))

\* C13: a lifecycle notification of any kind, in any state, is delivered
\* to both children, the palette first and the editor split second.
C13_LifecycleToBoth ==
    last.op = "lifecycle" =>
        Callees(calls) = <<"palette.lifecycle", "editor_split.lifecycle">>
        /\ \A i \in 1..Len(calls) : calls[i].arg = [lifecycle |-> last.lifecycle]

C13_Witness ==
    /\ last.op = "lifecycle"
    /\ last.lifecycle = "FocusChanged"
    /\ last_layout.valid
    /\ Len(calls) = 2

\* C14: an event of no handled kind, and a Command event with neither the
\* UI selector nor the domain selector, is dropped: no child receives it
\* and no handler of the shared state is called.
Unmatched ==
    /\ last.op = "event"
    /\ \/ last.event.kind \in {"KeyUp", "Timer", "WindowSize"}
       \/ /\ last.event.kind = "Command"
          /\ last.event.selector \notin {"LAPCE_UI_COMMAND", "LAPCE_COMMAND"}

C14_UnmatchedDropped ==
    Unmatched =>
        /\ OnlyFocusRequested
        /\ hidden = last.hidden
        /\ palette_rect = last.rect

C14_Witness ==
    /\ Unmatched
    /\ last.event.kind = "Timer"
    /\ ~last.hidden
    /\ Deliveries(calls) = << >>

\* C15: event, lifecycle, update and paint leave palette_rect unchanged in
\* every state and for every event; only layout changes it.  No operation
\* changes palette_max_size.
C15_RoutingKeepsPaletteRect ==
    [][ /\ palette_max_size' = palette_max_size
        /\ last'.op \in {"event", "lifecycle", "update", "paint"}
              => palette_rect' = palette_rect
        /\ palette_rect' # palette_rect => last'.op = "layout" ]_vars

C15_Witness ==
    /\ last.op \in {"event", "lifecycle", "update", "paint"}
    /\ last_layout.valid
    /\ palette_rect = last_layout.palette_rect
    /\ palette_rect # RectOf(Fx(200), Fx(100), Fx(600), Fx(400))
    /\ palette_max_size = Size(Fx(600), Fx(400))

\* C16: after any sequence of calls palette_rect is the rectangle the most
\* recent layout pass computed from its available size and the palette's
\* reported size, and before the first layout pass it is the provisional
\* rectangle at (200, 100) of size 600x400; pointer hit-testing uses exactly
\* that rectangle.
ExpectedPaletteRect ==
    IF last_layout.valid
    THEN PaletteRectFor(last_layout.size, last_layout.palette_size)
    ELSE RectOf(Fx(200), Fx(100), Fx(600), Fx(400))

HitBy(r, p) == r.x0 <= p.x /\ p.x < r.x1 /\ r.y0 <= p.y /\ p.y < r.y1

C16_PaletteRectIsLastLayout ==
    /\ palette_rect = ExpectedPaletteRect
    /\ HandledPointer =>
          (Count(calls, "palette.event") = 1
              <=> (~last.hidden /\ HitBy(ExpectedPaletteRect, last.event.pos)))

C16_Witness ==
    /\ HandledPointer
    /\ last_layout.valid
    /\ last_layout.size = Size(Fx(500), Fx(300))
    /\ last_layout.palette_size = Size(Fx(300), Fx(200))
    /\ palette_rect = RectOf(Fx(-50), 0, Fx(300), Fx(200))
    /\ last.event.pos = Point(Fx(200), Fx(100))
    /\ Count(calls, "palette.event") = 1

\* C17: the visibility used to route a pointer event is the shared hidden
\* flag at the time that event is handled: when the flag changed between
\* two pointer events at the same position, with no layout pass between
\* them, the second is routed by the new value of the flag.
FlagChangedBetween ==
    /\ HandledPointer
    /\ last.prev.valid
    /\ last.prev.hidden # last.hidden

C17_VisibilityReadPerEvent ==
    FlagChangedBetween =>
        /\ last.hidden => Deliveries(calls) = <<"editor_split.event">>
        /\ (~last.hidden /\ HitBy(last.rect, last.event.pos))
              => Deliveries(calls) = <<"palette.event">>
        /\ HitBy(last.rect, last.event.pos)
              => (Count(calls, "palette.event") = 1) # last.prev.to_palette

C17_Witness ==
    /\ FlagChangedBetween
    /\ last.hidden
    /\ last.prev.to_palette
    /\ HitBy(last.rect, last.event.pos)
    /\ Deliveries(calls) = <<"editor_split.event">>

\* C18: the container holds no lock on a section of the shared state while
\* it calls event, lifecycle, layout or paint on a child: the palette lock
\* taken to read the hidden flag is released before the pointer event is
\* forwarded, the theme lock taken in paint is released before the children
\* are painted, and the editor-split lock is held for the buffer_update
\* call only.
ChildEntryPoints ==
    {"palette.event", "editor_split.event", "palette.lifecycle",
     "editor_split.lifecycle", "palette.layout", "editor_split.layout",
     "palette.set_layout_rect", "editor_split.set_layout_rect",
     "palette.paint", "editor_split.paint"}

C18_NoLockAcrossChildCalls ==
    last.op # "new" =>
        \A i \in 1..Len(calls) :
            /\ calls[i].callee \in ChildEntryPoints => calls[i].locks = {}
            /\ "palette" \in calls[i].locks
                  => calls[i].callee = "LAPCE_STATE.palette.hidden"
            /\ "theme" \in calls[i].locks
                  => calls[i].callee \in {"LAPCE_STATE.theme.get", "ctx.fill"}
            /\ "editor_split" \in calls[i].locks
                  <=> calls[i].callee = "editor_split.buffer_update"

C18_Witness ==
    /\ HandledPointer
    /\ Len(calls) = 3
    /\ calls[2] = Call("LAPCE_STATE.palette.hidden", NoArg, {"palette"})
    /\ calls[3].callee = "palette.event"
    /\ calls[3].locks = {}

\* C19: every pointer event is delivered to exactly one child.  With the
\* palette visible, a point on the left or top edge of palette_rect, within
\* the half-open range of the other axis, goes to the palette, and a point
\* on the right or bottom edge goes to the editor split.
ExactlyOneChild ==
    \/ Deliveries(calls) = <<"palette.event">>
    \/ Deliveries(calls) = <<"editor_split.event">>
OnLeftEdge(r, p) == p.x = r.x0 /\ r.y0 <= p.y /\ p.y < r.y1
OnTopEdge(r, p) == p.y = r.y0 /\ r.x0 <= p.x /\ p.x < r.x1
OnRightOrBottomEdge(r, p) == p.x = r.x1 \/ p.y = r.y1
NonEmpty(r) == r.x0 < r.x1 /\ r.y0 < r.y1

\* C19 as stated: for every palette_rect, also one of no width or height
C19_EdgesAsStated ==
    HandledPointer =>
        /\ ExactlyOneChild
        /\ ~last.hidden =>
              /\ (OnLeftEdge(last.rect, last.event.pos)
                    \/ OnTopEdge(last.rect, last.event.pos))
                    => Deliveries(calls) = <<"palette.event">>
              /\ OnRightOrBottomEdge(last.rect, last.event.pos)
                    => Deliveries(calls) = <<"editor_split.event">>

\* C19 amended: the left and top edges belong to the palette when
\* palette_rect has positive width and height; a point on an edge of a
\* rectangle of no width or no height goes to the editor split.
C19_EdgesOfNonEmptyRect ==
    HandledPointer =>
        /\ ExactlyOneChild
        /\ ~last.hidden =>
              /\ (NonEmpty(last.rect)
                    /\ (OnLeftEdge(last.rect, last.event.pos)
                          \/ OnTopEdge(last.rect, last.event.pos)))
                    => Deliveries(calls) = <<"palette.event">>
              /\ OnRightOrBottomEdge(last.rect, last.event.pos)
                    => Deliveries(calls) = <<"editor_split.event">>
              /\ ~NonEmpty(last.rect)
                    => Deliveries(calls) = <<"editor_split.event">>

C19_Witness ==
    /\ HandledPointer /\ ~last.hidden
    /\ last.rect = RectOf(Fx(200), Fx(100), Fx(600), Fx(400))
    /\ last.event.pos = Point(Fx(200), Fx(300))
    /\ Deliveries(calls) = <<"palette.event">>

\* C20: the horizontal origin of palette_rect is not clamped: after layout
\* with available width W it is (W - palette_max_size.width) / 2 for every
\* W, negative when W is below the maximum width (-50 for W = 500), and it
\* is computed from the maximum width, not from the width the palette
\* reported, so a narrower palette has unequal left and right margins.
C20_HorizontalOriginUnclamped ==
    last_layout.valid =>
        LET W == last_layout.size.width
            wmax == palette_max_size.width
        IN  /\ 2 * palette_rect.x0 = W - wmax
            /\ W < wmax => palette_rect.x0 < 0
            /\ W = Fx(500) => palette_rect.x0 = Fx(-50)
            /\ last_layout.palette_size.width < wmax
                  => palette_rect.x0 # W - palette_rect.x1

C20_Witness ==
    /\ last.op = "layout"
    /\ last.bc.max.width = Fx(500)
    /\ last.palette_size = Size(Fx(300), Fx(200))
    /\ palette_rect.x0 = Fx(-50)
    /\ palette_rect.x1 = Fx(250)

====
